---- MODULE Spec2Model ----
(***************************************************************************)
(* Model of ModelhubTorrent/scripts/1a_init.py: the index retrieval, the   *)
(* thread pool of clone_repo tasks, and the files each task reads and      *)
(* writes.  The file system, the process working directory, the git host   *)
(* and the asset host are part of the state; a string on which the code    *)
(* does prefix tests is a sequence of characters (src_url) or of tokens    *)
(* ("/" and slash-free chunks, dest_file_path).                            *)
(***************************************************************************)
EXTENDS Integers, Sequences, FiniteSets, TLC

\* ------------------------------------------------------------------ bounds
\* number of times the script is run on the same machine
MaxRuns == 2
\* descriptors queued beyond the pool width in the wide-index scenario
ExtraPackages == 1

\* ThreadPoolExecutor(max_workers=5)
max_workers == 5

\* ------------------------------------------------------- strings and paths
StartsWith(s, prefix) ==
    /\ Len(s) >= Len(prefix)
    /\ SubSeq(s, 1, Len(prefix)) = prefix

\* str[1:]
DropFirst(s) == SubSeq(s, 2, Len(s))

\* pathlib.PurePosixPath(str): empty and "." components are dropped, a
\* leading separator makes the path absolute, ".." is kept as it is
PurePath(s) ==
    [abs   |-> (Len(s) > 0 /\ s[1] = "/"),
     parts |-> SelectSeq(s, LAMBDA t : t # "/" /\ t # ".")]

\* pathlib's `a / b`: an absolute right operand replaces the left one
JoinPath(a, b) ==
    IF b.abs THEN b ELSE [abs |-> a.abs, parts |-> a.parts \o b.parts]

\* (mutant) the directory the script was started in, as an absolute path
curr_Absolute == [abs |-> TRUE, parts |-> <<"proj", "scripts">>]

\* Path() of line 145 and the `curr / where` of safe_dir
curr == PurePath(<<>>)
repos_dir == JoinPath(curr, PurePath(<<"..", "/", "repos">>))
json_dir == JoinPath(curr, PurePath(<<"..", "/", "json">>))

\* ------------------------------------------------------------ file system
\* a node is a directory or a file holding a text
\* (`by` is the number of the task that wrote the file, 0 for anything else)
DirNode ==
    [kind |-> "dir", type |-> "dir", parsable |-> FALSE, fmt |-> "none", doc |-> <<>>, by |-> 0]
FileNode(type, parsable, fmt, doc) ==
    [kind |-> "file", type |-> type, parsable |-> parsable, fmt |-> fmt, doc |-> doc, by |-> 0]
WrittenBy(node, t) == [node EXCEPT !.by = t]
\* what a node holds, whoever wrote it
Content(node) == [node EXCEPT !.by = 0]

Exists(f, p) == p \in DOMAIN f
IsDir(f, p) == Exists(f, p) /\ f[p].kind = "dir"
IsFile(f, p) == Exists(f, p) /\ f[p].kind = "file"
Parent(p) == SubSeq(p, 1, Len(p) - 1)
IsPrefix(p, q) == Len(p) <= Len(q) /\ SubSeq(q, 1, Len(p)) = p
\* a directory with at least one entry
NonEmptyDir(f, p) == IsDir(f, p) /\ \E q \in DOMAIN f : q # p /\ IsPrefix(p, q)

\* the kernel's path walk from a starting directory: every component but
\* the last must be an existing directory, ".." goes to the parent
RECURSIVE Walk(_, _, _)
Walk(f, cur, parts) ==
    IF parts = <<>> THEN [ok |-> TRUE, path |-> cur]
    ELSE IF ~IsDir(f, cur) THEN [ok |-> FALSE, path |-> cur]
    ELSE IF Head(parts) = ".."
         THEN Walk(f, IF cur = <<>> THEN cur ELSE Parent(cur), Tail(parts))
         ELSE Walk(f, Append(cur, Head(parts)), Tail(parts))

\* a PurePath handed to the operating system by a process whose working
\* directory is wd
Resolve(f, wd, p) == Walk(f, IF p.abs THEN <<>> ELSE wd, p.parts)

WriteNode(f, p, node) == [q \in DOMAIN f \cup {p} |-> IF q = p THEN node ELSE f[q]]

\* (mutant) Path.mkdir() without exist_ok: an existing directory raises
MkdirOk_NoExistOk(f, wd, p) ==
    LET r == Resolve(f, wd, p)
    IN  r.ok /\ ~Exists(f, r.path) /\ IsDir(f, Parent(r.path))

\* Path.mkdir(exist_ok=True): raises unless the parent is a directory and
\* the path is free or already a directory
MkdirOk(f, wd, p) ==
    LET r == Resolve(f, wd, p)
    IN  /\ r.ok
        /\ \/ IsDir(f, r.path)
           \/ ~Exists(f, r.path) /\ IsDir(f, Parent(r.path))
Mkdir(f, wd, p) ==
    LET r == Resolve(f, wd, p)
    IN  IF Exists(f, r.path) THEN f ELSE WriteNode(f, r.path, DirNode)

\* open(path, "w"): possible when the parent is a directory and the path
\* is not itself a directory
CanWrite(f, wd, p) ==
    LET r == Resolve(f, wd, p)
    IN  r.ok /\ r.path # <<>> /\ IsDir(f, Parent(r.path)) /\ ~IsDir(f, r.path)
\* (mutant) the file is opened for appending: an existing text is kept
\* and the new one follows it
WriteFile_Appends(f, wd, p, node) ==
    LET r == Resolve(f, wd, p)
    IN  WriteNode(f, r.path,
                  IF IsFile(f, r.path)
                  THEN [node EXCEPT !.parsable = FALSE, !.fmt = "appended"]
                  ELSE node)

WriteFile(f, wd, p, node) == WriteNode(f, Resolve(f, wd, p).path, node)

\* Path.read_text(): possible when the path is a file
CanRead(f, wd, p) ==
    LET r == Resolve(f, wd, p) IN r.ok /\ IsFile(f, r.path)
ReadNode(f, wd, p) == f[Resolve(f, wd, p).path]

\* Path.read_text() decodes strictly: bytes outside the encoding raise
\* UnicodeDecodeError, where Response.json() puts a replacement character
Decodable(node) == node.fmt # "rawbytes"

\* json.loads succeeds on a parsable text and gives its document;
\* json.dumps gives a text in the serializer's own layout
dumps(type, doc) == FileNode(type, TRUE, "dumps", doc)


\* ------------------------------------------------------ the outside world
\* run-time switches: MHTORRENT_USE_LOCAL_MODEL_INDEX, MHTORRENT_SKIP_CLONE,
\* MHTORRENT_SKIP_DOWNLOAD
Envs == [useLocal : BOOLEAN, skipClone : BOOLEAN, skipDownload : BOOLEAN]

\* one entry of the index; has_github = FALSE is an entry without the key
Descriptor(name, github) == [name |-> name, has_github |-> TRUE, github |-> github]
DescriptorNoGithub(name) == [name |-> name, has_github |-> FALSE, github |-> ""]

\* one entry of external_contrib_files
Asset(src, dest) == [src_url |-> src, dest_file_path |-> dest]
UrlHttpA == <<"h", "t", "t", "p", ":", "/", "/", "a">>
UrlHttpsB == <<"h", "t", "t", "p", "s", ":", "/", "/", "b">>
UrlHttpNote == <<"h", "t", "t", "p", " ", "x">>
UrlTodo == <<"T", "O", "D", "O">>

\* init.json documents; has_ecf = FALSE is a document without the key
InitDoc(ecf) == [has_ecf |-> TRUE, external_contrib_files |-> ecf]
InitDocPlain == [has_ecf |-> FALSE, external_contrib_files |-> <<>>]

\* the tree a repository holds on the git host
RepoTree(hasInit, initNode, hasConfig, configNode) ==
    LET dirs == {<<>>, <<"init">>, <<"contrib_src">>, <<"contrib_src", "model">>}
        initP == <<"init", "init.json">>
        confP == <<"contrib_src", "model", "config.json">>
        files == (IF hasInit THEN {initP} ELSE {}) \cup (IF hasConfig THEN {confP} ELSE {})
    IN  [p \in dirs \cup files |->
            IF p = initP THEN initNode
            ELSE IF p = confP THEN configNode
            ELSE DirNode]

OrigInit(doc) == FileNode("init", TRUE, "orig", doc)
OrigConfig(doc) == FileNode("config", TRUE, "orig", doc)
BrokenText(type) == FileNode(type, FALSE, "orig", <<>>)

\* the repositories the git host serves, by URL
GitUrls == {"g_plain", "g_other", "g_todo", "g_note", "g_abs", "g_up",
            "g_badcfg", "g_nometa", "g_noinit"}
GitHost(url) ==
    CASE url = "g_plain" -> RepoTree(TRUE, OrigInit(InitDocPlain), TRUE, OrigConfig("cfgA"))
      [] url = "g_other" -> RepoTree(TRUE, OrigInit(InitDoc(<<>>)), TRUE, OrigConfig("cfgB"))
      [] url = "g_todo" ->
            RepoTree(TRUE,
                     OrigInit(InitDoc(<<Asset(UrlTodo, <<"/", "w">>),
                                        Asset(UrlHttpA, <<"/", "contrib_src", "/", "w">>)>>)),
                     TRUE, OrigConfig("cfgA"))
      [] url = "g_note" ->
            RepoTree(TRUE, OrigInit(InitDoc(<<Asset(UrlHttpNote, <<"w">>)>>)),
                     TRUE, OrigConfig("cfgA"))
      [] url = "g_abs" ->
            RepoTree(TRUE, OrigInit(InitDoc(<<Asset(UrlHttpsB, <<"/", "/", "tmp", "/", "w">>)>>)),
                     TRUE, OrigConfig("cfgA"))
      [] url = "g_up" ->
            RepoTree(TRUE, OrigInit(InitDoc(<<Asset(UrlHttpA, <<"/", "..", "/", "m1", "/", "w">>)>>)),
                     TRUE, OrigConfig("cfgB"))
      [] url = "g_badcfg" -> RepoTree(TRUE, OrigInit(InitDocPlain), TRUE, BrokenText("config"))
      [] url = "g_nometa" -> RepoTree(TRUE, OrigInit(InitDocPlain), TRUE, OrigConfig("cfgNoMeta"))
      [] url = "g_noinit" -> RepoTree(FALSE, DirNode, TRUE, OrigConfig("cfgA"))

\* what a successful download leaves at its destination
AssetNode(src) == FileNode("asset", FALSE, "bin", src)
\* wget -O opens (truncates) the destination before it transfers anything
EmptyNode == FileNode("empty", FALSE, "bin", <<>>)


\* the index documents the index URL may serve
IndexBody(doc) == FileNode("index", TRUE, "orig", doc)
WideNames == <<"w1", "w2", "w3", "w4", "w5", "w6", "w7", "w8", "w9">>
\* more descriptors than the pool has workers: entries without the github
\* key, then as many repositories the git host does not serve as the pool
\* has workers, then one it serves
WideIndex ==
    LET n == ExtraPackages + max_workers + 1
    IN  [i \in 1..n |->
            IF i <= ExtraPackages THEN DescriptorNoGithub(WideNames[i])
            ELSE IF i < n THEN Descriptor(WideNames[i], "g_gone")
            ELSE Descriptor(WideNames[i], "g_todo")]
IndexDocs ==
    { <<Descriptor("m1", "g_todo")>>,
      <<Descriptor("m1", "g_note")>>,
      <<Descriptor("m1", "g_abs")>>,
      <<DescriptorNoGithub("m1"), Descriptor("m2", "")>>,
      <<Descriptor("m1", "g_badcfg"), Descriptor("m2", "g_plain")>>,
      <<Descriptor("m1", "g_nometa"), Descriptor("m2", "g_noinit")>>,
      <<Descriptor("m1", "g_plain"), Descriptor("m2", "g_up")>>,
      <<Descriptor("dup", "g_plain"), Descriptor("dup", "g_other")>>,
      WideIndex }
\* an index whose text has, inside a field the script does not use, bytes
\* that are not valid in the encoding a reader of the file assumes
UndecodedIndex == FileNode("index", TRUE, "rawbytes", <<Descriptor("m1", "g_plain")>>)
IndexBodies ==
    {IndexBody(d) : d \in IndexDocs} \cup {BrokenText("index"), UndecodedIndex}

\* ------------------------------------------------------------------ state
VARIABLES
    run,          \* number of the current run of the script
    env,          \* the switches of the current run
    remoteIndex,  \* the body the index URL serves
    fs,           \* the file system: path -> node
    cwd,          \* the process-wide working directory
    pc,           \* where the main thread is
    models,       \* create_model_repos' local `models`
    retval,       \* what create_model_repos gave its caller
    pool,         \* the executor: "none" before line 137
    numThreads,   \* worker threads the executor has started
    queue,        \* the executor's work queue (task numbers)
    tasks,        \* the submitted tasks, by order of submission
    netCalls,     \* requests.get calls of this run
    snapWrites,   \* writes of models.json by get_model_index in this run
    gitCalls,     \* git commands run by this run
    wgetCalls,    \* wget commands run by this run
    prev          \* the previous run: whether it had the same switches, the
                  \* names it left cloned, whether it left a snapshot,
                  \* whether it fetched an index and which, the metadata
                  \* files it left

vars == <<run, env, remoteIndex, fs, cwd, pc, models, retval, pool, numThreads,
          queue, tasks, netCalls, snapWrites, gitCalls, wgetCalls, prev>>

Root == <<>>
ProjDir == <<"proj">>
ScriptsDir == <<"proj", "scripts">>
ReposRoot == <<"proj", "repos">>
JsonRoot == <<"proj", "json">>
SnapshotPath == <<"proj", "json", "models.json">>

NoneValue == [kind |-> "None"]
RaisedValue(exc) == [kind |-> "raised", exc |-> exc]

\* a machine on which the script has never run
FreshFs == [p \in {Root, <<"tmp">>, ProjDir, ScriptsDir} |-> DirNode]

Init ==
    /\ run = 1
    /\ env \in Envs
    /\ remoteIndex \in IndexBodies
    /\ fs = FreshFs
    /\ cwd = ScriptsDir
    /\ pc = "main"
    /\ models = <<>>
    /\ retval = NoneValue
    /\ pool = "none"
    /\ numThreads = 0
    /\ queue = <<>>
    /\ tasks = <<>>
    /\ netCalls = 0
    /\ snapWrites = 0
    /\ gitCalls = {}
    /\ wgetCalls = {}
    /\ prev = [ran |-> FALSE, sameEnv |-> FALSE, cloned |-> {}, snapshot |-> FALSE,
               live |-> FALSE, models |-> <<>>, outputs |-> <<>>]

\* ------------------------------------------------------------ main thread
\* safe_dir(where): (curr / where).mkdir(exist_ok=True)
safe_dir(f, wd, where) == Mkdir(f, wd, JoinPath(curr, PurePath(where)))

\* lines 144-147: the two roots are created next to the working directory
Main ==
    /\ pc = "main"
    /\ fs' = safe_dir(safe_dir(fs, cwd, <<"..", "/", "repos">>), cwd, <<"..", "/", "json">>)
    /\ pc' = "index"
    /\ UNCHANGED <<run, env, remoteIndex, cwd, models, retval, pool, numThreads,
                   queue, tasks, netCalls, snapWrites, gitCalls, wgetCalls, prev>>

models_file == JoinPath(json_dir, PurePath(<<"models.json">>))

\* (mutant) a snapshot that cannot be read makes the run fetch the index
LoadLocalIndex_FallsBack ==
    /\ pc = "index"
    /\ env.useLocal
    /\ IF /\ CanRead(fs, cwd, models_file)
          /\ Decodable(ReadNode(fs, cwd, models_file))
          /\ ReadNode(fs, cwd, models_file).parsable
       THEN /\ models' = ReadNode(fs, cwd, models_file).doc
            /\ pc' = "chdir"
            /\ UNCHANGED <<fs, retval, netCalls, snapWrites>>
       ELSE /\ netCalls' = netCalls + 1
            /\ snapWrites' = snapWrites + 1
            /\ fs' = WriteFile(fs, cwd, models_file, remoteIndex)
            /\ models' = remoteIndex.doc
            /\ pc' = IF remoteIndex.parsable THEN "chdir" ELSE "aborted"
            /\ retval' = IF remoteIndex.parsable THEN retval
                         ELSE RaisedValue("JSONDecodeError")
    /\ UNCHANGED <<run, env, remoteIndex, cwd, pool, numThreads, queue, tasks,
                   gitCalls, wgetCalls, prev>>

\* lines 130-131: the snapshot is read and parsed; a missing or unparsable
\* snapshot raises out of create_model_repos
LoadLocalIndex ==
    /\ pc = "index"
    /\ env.useLocal
    /\ IF /\ CanRead(fs, cwd, models_file)
          /\ Decodable(ReadNode(fs, cwd, models_file))
          /\ ReadNode(fs, cwd, models_file).parsable
       THEN /\ models' = ReadNode(fs, cwd, models_file).doc
            /\ pc' = "chdir"
            /\ retval' = retval
       ELSE /\ models' = models
            /\ pc' = "aborted"
            /\ retval' = RaisedValue(
                   IF ~CanRead(fs, cwd, models_file) THEN "FileNotFoundError"
                   ELSE IF ~Decodable(ReadNode(fs, cwd, models_file))
                        THEN "UnicodeDecodeError"
                   ELSE "JSONDecodeError")
    /\ UNCHANGED <<run, env, remoteIndex, fs, cwd, pool, numThreads, queue, tasks,
                   netCalls, snapWrites, gitCalls, wgetCalls, prev>>

\* lines 132-133 and get_model_index (38-48): the request may raise; its
\* body is written to the snapshot before it is parsed
FetchIndex ==
    /\ pc = "index"
    /\ ~env.useLocal
    /\ netCalls' = netCalls + 1
    /\ \/ /\ pc' = "aborted"
          /\ retval' = RaisedValue("RequestException")
          /\ UNCHANGED <<fs, models, snapWrites>>
       \/ /\ fs' = WriteFile(fs, cwd, models_file, remoteIndex)
          /\ snapWrites' = snapWrites + 1
          /\ IF remoteIndex.parsable
             THEN /\ models' = remoteIndex.doc
                  /\ pc' = "chdir"
                  /\ retval' = retval
             ELSE /\ models' = models
                  /\ pc' = "aborted"
                  /\ retval' = RaisedValue("JSONDecodeError")
    /\ UNCHANGED <<run, env, remoteIndex, cwd, pool, numThreads, queue, tasks,
                   gitCalls, wgetCalls, prev>>

\* line 134: chdir(repos_dir)
ChdirRepos ==
    /\ pc = "chdir"
    /\ cwd' = Resolve(fs, cwd, repos_dir).path
    /\ pc' = "pool"
    /\ UNCHANGED <<run, env, remoteIndex, fs, models, retval, pool, numThreads,
                   queue, tasks, netCalls, snapWrites, gitCalls, wgetCalls, prev>>

\* line 137: ThreadPoolExecutor(max_workers=5); threads start on demand
CreatePool ==
    /\ pc = "pool"
    /\ pool' = "created"
    /\ numThreads' = 0
    /\ pc' = "submit"
    /\ UNCHANGED <<run, env, remoteIndex, fs, cwd, models, retval, queue, tasks,
                   netCalls, snapWrites, gitCalls, wgetCalls, prev>>


\* ------------------------------------------------------------- the pool
RunningPcs == {"clone", "load_init", "assets", "load_config", "mkdir",
               "write_model", "write_mh"}
BlockingPcs == {"clone", "assets"}
TerminalPcs == {"ok", "failed"}
\* (mutant) a thread whose task raised does not come back for the next item
Running_FailedHoldsWorker ==
    {t \in DOMAIN tasks : tasks[t].pc \in RunningPcs \cup {"failed"}}

\* the tasks a worker thread is executing
Running == {t \in DOMAIN tasks : tasks[t].pc \in RunningPcs}

NoError == [step |-> "none", exc |-> "none"]
NewTask(meta) ==
    [meta |-> meta, pc |-> "queued", err |-> NoError, k |-> 0,
     data |-> InitDocPlain, config |-> "none"]

\* (mutant) a thread is started for every item no free thread can take
AdjustThreadCount_Unbounded(n, busy) == IF busy < n THEN n ELSE n + 1

\* the executor starts one more thread for a submitted item only while no
\* thread is free and fewer than max_workers threads exist
AdjustThreadCount(n, busy) ==
    IF busy < n THEN n ELSE IF n < max_workers THEN n + 1 ELSE n

\* line 138-139: one task per descriptor, in index order
Submit ==
    /\ pc = "submit"
    /\ Len(tasks) < Len(models)
    /\ LET t == Len(tasks) + 1
       IN  /\ tasks' = Append(tasks, NewTask(models[t]))
           /\ numThreads' = AdjustThreadCount(numThreads, Cardinality(Running) + Len(queue))
           /\ queue' = Append(queue, t)
    /\ UNCHANGED <<run, env, remoteIndex, fs, cwd, pc, models, retval, pool,
                   netCalls, snapWrites, gitCalls, wgetCalls, prev>>

\* end of the loop of line 138
SubmitDone ==
    /\ pc = "submit"
    /\ Len(tasks) = Len(models)
    /\ pc' = "chdir_back"
    /\ UNCHANGED <<run, env, remoteIndex, fs, cwd, models, retval, pool, numThreads,
                   queue, tasks, netCalls, snapWrites, gitCalls, wgetCalls, prev>>

\* line 141: chdir(curr), then create_model_repos returns None; nothing
\* waits for the submitted tasks
ChdirBack ==
    /\ pc = "chdir_back"
    /\ cwd' = Resolve(fs, cwd, curr).path
    /\ pc' = "returned"
    /\ retval' = NoneValue
    /\ UNCHANGED <<run, env, remoteIndex, fs, models, pool, numThreads, queue, tasks,
                   netCalls, snapWrites, gitCalls, wgetCalls, prev>>

\* ------------------------------------------------------------- clone_repo
\* @handle_errors: the exception of a step ends the task; it is logged
handle_errors(task, step, exc) ==
    [task EXCEPT !.pc = "failed", !.err = [step |-> step, exc |-> exc],
                 !.k = 0, !.data = InitDocPlain]

repo_root(name) == JoinPath(repos_dir, PurePath(<<name>>))
init_file(name) == JoinPath(repo_root(name), PurePath(<<"init", "/", "init.json">>))
config_file(name) ==
    JoinPath(JoinPath(repos_dir, PurePath(<<name>>)),
             PurePath(<<"contrib_src", "/", "model", "/", "config.json">>))
model_metadata_dir(name) == JoinPath(json_dir, PurePath(<<name>>))
general_model_metadata_path(name) ==
    JoinPath(model_metadata_dir(name), PurePath(<<"model.json">>))
mh_metadata_path(name) ==
    JoinPath(model_metadata_dir(name), PurePath(<<"modelhub.json">>))

\* a worker thread takes the head of the queue; lines 75-76 read the two
\* keys of the descriptor, line 83 reads the switch
TaskStart(t) ==
    /\ pool = "created"
    /\ queue # <<>>
    /\ t = Head(queue)
    /\ Cardinality(Running) < numThreads
    /\ queue' = Tail(queue)
    /\ tasks' = [tasks EXCEPT ![t] =
            IF ~tasks[t].meta.has_github
            THEN handle_errors(@, "lookup", "KeyError")
            ELSE [@ EXCEPT !.pc = IF env.skipClone THEN "load_init" ELSE "clone"]]
    /\ UNCHANGED <<run, env, remoteIndex, fs, cwd, pc, models, retval, pool, numThreads,
                   netCalls, snapWrites, gitCalls, wgetCalls, prev>>

\* what `git clone --depth=1 <url> <name>` leaves at its target
Materialize(f, target, tree) ==
    LET new == {target \o r : r \in DOMAIN tree}
    IN  [q \in DOMAIN f \cup new |->
            IF q \in new THEN tree[SubSeq(q, Len(target) + 1, Len(q))] ELSE f[q]]

\* line 84: git refuses a target that exists and is not an empty directory,
\* and fails when it cannot get the repository
GitClone(t) ==
    /\ t \in DOMAIN tasks
    /\ tasks[t].pc = "clone"
    /\ LET url == tasks[t].meta.github
           name == tasks[t].meta.name
           r == Resolve(fs, cwd, PurePath(<<name>>))
           busy == r.ok /\ (IsFile(fs, r.path) \/ NonEmptyDir(fs, r.path))
           can == r.ok /\ ~busy /\ IsDir(fs, Parent(r.path)) /\ url \in GitUrls
       IN  /\ gitCalls' = gitCalls \cup {[task |-> t, url |-> url, name |-> name, cwd |-> cwd]}
           /\ \/ /\ can
                 /\ fs' = Materialize(fs, r.path, GitHost(url))
                 /\ tasks' = [tasks EXCEPT ![t].pc = "load_init"]
              \/ /\ fs' = fs
                 /\ tasks' = [tasks EXCEPT ![t] =
                        handle_errors(@, "clone",
                                      IF busy THEN "CalledProcessError:exists"
                                      ELSE "CalledProcessError:remote")]
    /\ UNCHANGED <<run, env, remoteIndex, cwd, pc, models, retval, pool, numThreads,
                   queue, netCalls, snapWrites, wgetCalls, prev>>

\* lines 85-88: init.json is read and parsed
LoadInit(t) ==
    /\ t \in DOMAIN tasks
    /\ tasks[t].pc = "load_init"
    /\ LET f == init_file(tasks[t].meta.name)
       IN  tasks' = [tasks EXCEPT ![t] =
              IF ~CanRead(fs, cwd, f) THEN handle_errors(@, "load_init", "FileNotFoundError")
              ELSE IF ~ReadNode(fs, cwd, f).parsable \/ ReadNode(fs, cwd, f).type # "init"
                   THEN handle_errors(@, "load_init", "JSONDecodeError")
              ELSE LET data == ReadNode(fs, cwd, f).doc
                   IN  IF data.has_ecf /\ data.external_contrib_files # <<>>
                       THEN [@ EXCEPT !.pc = "assets", !.data = data, !.k = 1]
                       ELSE [@ EXCEPT !.pc = "load_config"]]
    /\ UNCHANGED <<run, env, remoteIndex, fs, cwd, pc, models, retval, pool, numThreads,
                   queue, netCalls, snapWrites, gitCalls, wgetCalls, prev>>


\* line 94: `if not src.startswith("http"): continue`
SkipsEntry(src) == ~StartsWith(src, <<"h", "t", "t", "p">>)

\* lines 98-99: `if dest.startswith("/"): dest = dest[1:]`
NormalizeDest(dest) == IF StartsWith(dest, <<"/">>) THEN DropFirst(dest) ELSE dest

\* line 100: realpath = repo_root / dest
RealPath(name, dest) == JoinPath(repo_root(name), PurePath(NormalizeDest(dest)))

\* the loop of line 89 moves to its next entry, or ends
NextEntry(task) ==
    IF task.k < Len(task.data.external_contrib_files)
    THEN [task EXCEPT !.k = @ + 1]
    ELSE [task EXCEPT !.pc = "load_config", !.k = 0, !.data = InitDocPlain]

\* (mutant) the loop does not look at MHTORRENT_SKIP_DOWNLOAD
AssetStep_IgnoresSwitch(t) ==
    /\ t \in DOMAIN tasks
    /\ tasks[t].pc = "assets"
    /\ LET entry == tasks[t].data.external_contrib_files[tasks[t].k]
           src == entry.src_url
           name == tasks[t].meta.name
           realpath == RealPath(name, entry.dest_file_path)
       IN  IF SkipsEntry(src)
           THEN /\ tasks' = [tasks EXCEPT ![t] = NextEntry(@)]
                /\ UNCHANGED <<fs, wgetCalls>>
           ELSE /\ wgetCalls' = wgetCalls \cup
                        {[task |-> t, name |-> name, src |-> src,
                          given |-> entry.dest_file_path, dest |-> realpath]}
                /\ IF CanWrite(fs, cwd, realpath)
                   THEN \/ /\ fs' = WriteFile(fs, cwd, realpath, WrittenBy(AssetNode(src), t))
                           /\ tasks' = [tasks EXCEPT ![t] = NextEntry(@)]
                        \/ /\ fs' = WriteFile(fs, cwd, realpath, WrittenBy(EmptyNode, t))
                           /\ tasks' = [tasks EXCEPT ![t] =
                                  handle_errors(@, "assets", "CalledProcessError:wget")]
                   ELSE /\ fs' = fs
                        /\ tasks' = [tasks EXCEPT ![t] =
                               handle_errors(@, "assets", "CalledProcessError:wget")]
    /\ UNCHANGED <<run, env, remoteIndex, cwd, pc, models, retval, pool, numThreads,
                   queue, netCalls, snapWrites, gitCalls, prev>>

\* (mutant) wget is run without check=True: a failed download goes unnoticed
AssetStep_IgnoresFailure(t) ==
    /\ t \in DOMAIN tasks
    /\ tasks[t].pc = "assets"
    /\ LET entry == tasks[t].data.external_contrib_files[tasks[t].k]
           src == entry.src_url
           name == tasks[t].meta.name
           realpath == RealPath(name, entry.dest_file_path)
       IN  IF SkipsEntry(src) \/ env.skipDownload
           THEN /\ tasks' = [tasks EXCEPT ![t] = NextEntry(@)]
                /\ UNCHANGED <<fs, wgetCalls>>
           ELSE /\ wgetCalls' = wgetCalls \cup
                        {[task |-> t, name |-> name, src |-> src,
                          given |-> entry.dest_file_path, dest |-> realpath]}
                /\ IF CanWrite(fs, cwd, realpath)
                   THEN \/ /\ fs' = WriteFile(fs, cwd, realpath, WrittenBy(AssetNode(src), t))
                           /\ tasks' = [tasks EXCEPT ![t] = NextEntry(@)]
                        \/ /\ fs' = WriteFile(fs, cwd, realpath, WrittenBy(EmptyNode, t))
                           /\ tasks' = [tasks EXCEPT ![t] = NextEntry(@)]
                   ELSE /\ fs' = fs
                        /\ tasks' = [tasks EXCEPT ![t] =
                               handle_errors(@, "assets", "CalledProcessError:wget")]
    /\ UNCHANGED <<run, env, remoteIndex, cwd, pc, models, retval, pool, numThreads,
                   queue, netCalls, snapWrites, gitCalls, prev>>

\* lines 89-105 for one entry, with download_file (59-67): wget runs unless
\* the entry is skipped or downloads are switched off; a wget that fails
\* raises CalledProcessError
AssetStep(t) ==
    /\ t \in DOMAIN tasks
    /\ tasks[t].pc = "assets"
    /\ LET entry == tasks[t].data.external_contrib_files[tasks[t].k]
           src == entry.src_url
           name == tasks[t].meta.name
           realpath == RealPath(name, entry.dest_file_path)
       IN  IF SkipsEntry(src) \/ env.skipDownload
           THEN /\ tasks' = [tasks EXCEPT ![t] = NextEntry(@)]
                /\ UNCHANGED <<fs, wgetCalls>>
           ELSE /\ wgetCalls' = wgetCalls \cup
                        {[task |-> t, name |-> name, src |-> src,
                          given |-> entry.dest_file_path, dest |-> realpath]}
                /\ IF CanWrite(fs, cwd, realpath)
                   THEN \/ /\ fs' = WriteFile(fs, cwd, realpath, WrittenBy(AssetNode(src), t))
                           /\ tasks' = [tasks EXCEPT ![t] = NextEntry(@)]
                        \/ /\ fs' = WriteFile(fs, cwd, realpath, WrittenBy(EmptyNode, t))
                           /\ tasks' = [tasks EXCEPT ![t] =
                                  handle_errors(@, "assets", "CalledProcessError:wget")]
                   ELSE /\ fs' = fs
                        /\ tasks' = [tasks EXCEPT ![t] =
                               handle_errors(@, "assets", "CalledProcessError:wget")]
    /\ UNCHANGED <<run, env, remoteIndex, cwd, pc, models, retval, pool, numThreads,
                   queue, netCalls, snapWrites, gitCalls, prev>>

\* (mutant) the exception of the config load reaches the main thread
LoadConfig_Propagates(t) ==
    /\ t \in DOMAIN tasks
    /\ tasks[t].pc = "load_config"
    /\ LET f == config_file(tasks[t].meta.name)
           bad == ~CanRead(fs, cwd, f) \/ ~ReadNode(fs, cwd, f).parsable
       IN  /\ tasks' = [tasks EXCEPT ![t] =
                  IF bad THEN handle_errors(@, "load_config", "JSONDecodeError")
                  ELSE [@ EXCEPT !.pc = "mkdir", !.config = ReadNode(fs, cwd, f).doc]]
           /\ pc' = IF bad THEN "aborted" ELSE pc
           /\ retval' = IF bad THEN RaisedValue("JSONDecodeError") ELSE retval
    /\ UNCHANGED <<run, env, remoteIndex, fs, cwd, models, pool, numThreads,
                   queue, netCalls, snapWrites, gitCalls, wgetCalls, prev>>

\* line 106: config.json is read and parsed
LoadConfig(t) ==
    /\ t \in DOMAIN tasks
    /\ tasks[t].pc = "load_config"
    /\ LET f == config_file(tasks[t].meta.name)
       IN  tasks' = [tasks EXCEPT ![t] =
              IF ~CanRead(fs, cwd, f) THEN handle_errors(@, "load_config", "FileNotFoundError")
              ELSE IF ~ReadNode(fs, cwd, f).parsable
                   THEN handle_errors(@, "load_config", "JSONDecodeError")
              ELSE [@ EXCEPT !.pc = "mkdir", !.config = ReadNode(fs, cwd, f).doc]]
    /\ UNCHANGED <<run, env, remoteIndex, fs, cwd, pc, models, retval, pool, numThreads,
                   queue, netCalls, snapWrites, gitCalls, wgetCalls, prev>>

\* lines 107-108: model_metadata_dir.mkdir(exist_ok=True)
MkdirMeta(t) ==
    /\ t \in DOMAIN tasks
    /\ tasks[t].pc = "mkdir"
    /\ LET d == model_metadata_dir(tasks[t].meta.name)
       IN  IF MkdirOk(fs, cwd, d)
           THEN /\ fs' = Mkdir(fs, cwd, d)
                /\ tasks' = [tasks EXCEPT ![t].pc = "write_model"]
           ELSE /\ fs' = fs
                /\ tasks' = [tasks EXCEPT ![t] = handle_errors(@, "mkdir", "OSError")]
    /\ UNCHANGED <<run, env, remoteIndex, cwd, pc, models, retval, pool, numThreads,
                   queue, netCalls, snapWrites, gitCalls, wgetCalls, prev>>

\* Model(config, sidecar, github_repo): the normalizer rejects a
\* configuration without the fields it needs
ModelRaises(config) == config = "cfgNoMeta"
\* Model(...).as_json: the record names the sidecar by its relative path
ModelAsJson(config, sidecar, github_repo) ==
    [config |-> config, sidecar |-> sidecar, github |-> github_repo]
\* mh_metadata_path.relative_to(model_metadata_dir)
RelativeTo(p, base) ==
    [abs |-> FALSE, parts |-> SubSeq(p.parts, Len(base.parts) + 1, Len(p.parts))]

\* what line 113 writes for a task
ModelText(task) ==
    dumps("model",
          ModelAsJson(task.config,
                      RelativeTo(mh_metadata_path(task.meta.name),
                                 model_metadata_dir(task.meta.name)),
                      task.meta.github))
\* (mutant) the normalized record is written to the sidecar as well
ModelhubText_WritesModel(task) == ModelText(task)

\* what line 114 writes for a task
ModelhubText(task) == dumps("config", task.config)

\* lines 112-113: the record is built and written to model.json
WriteModel(t) ==
    /\ t \in DOMAIN tasks
    /\ tasks[t].pc = "write_model"
    /\ LET p == general_model_metadata_path(tasks[t].meta.name)
       IN  IF ModelRaises(tasks[t].config)
           THEN /\ fs' = fs
                /\ tasks' = [tasks EXCEPT ![t] =
                       handle_errors(@, "normalize", "NormalizationError")]
           ELSE IF ~CanWrite(fs, cwd, p)
           THEN /\ fs' = fs
                /\ tasks' = [tasks EXCEPT ![t] = handle_errors(@, "write_model", "OSError")]
           ELSE /\ fs' = WriteFile(fs, cwd, p, WrittenBy(ModelText(tasks[t]), t))
                /\ tasks' = [tasks EXCEPT ![t].pc = "write_mh"]
    /\ UNCHANGED <<run, env, remoteIndex, cwd, pc, models, retval, pool, numThreads,
                   queue, netCalls, snapWrites, gitCalls, wgetCalls, prev>>

\* line 114: the configuration is written to modelhub.json; the task ends
WriteModelhub(t) ==
    /\ t \in DOMAIN tasks
    /\ tasks[t].pc = "write_mh"
    /\ LET p == mh_metadata_path(tasks[t].meta.name)
       IN  IF ~CanWrite(fs, cwd, p)
           THEN /\ fs' = fs
                /\ tasks' = [tasks EXCEPT ![t] = handle_errors(@, "write_mh", "OSError")]
           ELSE /\ fs' = WriteFile(fs, cwd, p, WrittenBy(ModelhubText(tasks[t]), t))
                /\ tasks' = [tasks EXCEPT ![t].pc = "ok"]
    /\ UNCHANGED <<run, env, remoteIndex, cwd, pc, models, retval, pool, numThreads,
                   queue, netCalls, snapWrites, gitCalls, wgetCalls, prev>>

\* ------------------------------------------------------- process and runs
AllTasksDone == \A t \in DOMAIN tasks : tasks[t].pc \in TerminalPcs

\* the interpreter exits once the main thread is through and the pool's
\* threads have run out of work
ProcessExit ==
    /\ pc = "returned"
    /\ AllTasksDone
    /\ pc' = "exited"
    /\ UNCHANGED <<run, env, remoteIndex, fs, cwd, models, retval, pool, numThreads,
                   queue, tasks, netCalls, snapWrites, gitCalls, wgetCalls, prev>>

\* the script is started again on the same machine, with any switches
Rerun ==
    /\ pc \in {"exited", "aborted"}
    /\ run < MaxRuns
    /\ run' = run + 1
    /\ env' \in Envs
    /\ prev' = [ran |-> TRUE, sameEnv |-> (env' = env),
                cloned |-> {n \in {m.name : m \in {models[i] : i \in DOMAIN models}} :
                               NonEmptyDir(fs, Append(ReposRoot, n))},
                snapshot |-> IsFile(fs, SnapshotPath),
                live |-> (~env.useLocal /\ pc = "exited"),
                models |-> IF ~env.useLocal /\ pc = "exited" THEN models ELSE <<>>,
                outputs |-> [q \in {x \in DOMAIN fs : IsPrefix(JsonRoot, x) /\ Len(x) = 4}
                                |-> Content(fs[q])]]
    /\ cwd' = ScriptsDir
    /\ pc' = "main"
    /\ models' = <<>>
    /\ retval' = NoneValue
    /\ pool' = "none"
    /\ numThreads' = 0
    /\ queue' = <<>>
    /\ tasks' = <<>>
    /\ netCalls' = 0
    /\ snapWrites' = 0
    /\ gitCalls' = {}
    /\ wgetCalls' = {}
    /\ UNCHANGED <<remoteIndex, fs>>

Next ==
    \/ Main
    \/ LoadLocalIndex
    \/ FetchIndex
    \/ ChdirRepos
    \/ CreatePool
    \/ Submit
    \/ SubmitDone
    \/ ChdirBack
    \/ \E t \in DOMAIN tasks : TaskStart(t)
    \/ \E t \in DOMAIN tasks : GitClone(t)
    \/ \E t \in DOMAIN tasks : LoadInit(t)
    \/ \E t \in DOMAIN tasks : AssetStep(t)
    \/ \E t \in DOMAIN tasks : LoadConfig(t)
    \/ \E t \in DOMAIN tasks : MkdirMeta(t)
    \/ \E t \in DOMAIN tasks : WriteModel(t)
    \/ \E t \in DOMAIN tasks : WriteModelhub(t)
    \/ ProcessExit
    \/ Rerun

Spec == Init /\ [][Next]_vars

\* the steps of the main thread, and the steps of the worker that has task t
MainThread ==
    \/ Main
    \/ LoadLocalIndex
    \/ FetchIndex
    \/ ChdirRepos
    \/ CreatePool
    \/ Submit
    \/ SubmitDone
    \/ ChdirBack
    \/ ProcessExit
Worker(t) ==
    \/ TaskStart(t)
    \/ GitClone(t)
    \/ LoadInit(t)
    \/ AssetStep(t)
    \/ LoadConfig(t)
    \/ MkdirMeta(t)
    \/ WriteModel(t)
    \/ WriteModelhub(t)
\* one run of the script
NextRun ==
    \/ Main
    \/ LoadLocalIndex
    \/ FetchIndex
    \/ ChdirRepos
    \/ CreatePool
    \/ Submit
    \/ SubmitDone
    \/ ChdirBack
    \/ \E t \in DOMAIN tasks : TaskStart(t)
    \/ \E t \in DOMAIN tasks : GitClone(t)
    \/ \E t \in DOMAIN tasks : LoadInit(t)
    \/ \E t \in DOMAIN tasks : AssetStep(t)
    \/ \E t \in DOMAIN tasks : LoadConfig(t)
    \/ \E t \in DOMAIN tasks : MkdirMeta(t)
    \/ \E t \in DOMAIN tasks : WriteModel(t)
    \/ \E t \in DOMAIN tasks : WriteModelhub(t)
    \/ ProcessExit

\* one run under a scheduler that keeps running the threads that can
\* run: the main thread goes on, and in the pool an idle worker takes the
\* head of the queue and git and wget return
SpecFair ==
    /\ Init
    /\ [][NextRun]_vars
    /\ WF_vars(MainThread)
    /\ WF_vars(\E t \in DOMAIN tasks : Worker(t))


\* ================================================================ claims
MetaFile(name, file) == <<"proj", "json", name, file>>
HasOutputs(name) ==
    /\ IsFile(fs, MetaFile(name, "model.json"))
    /\ IsFile(fs, MetaFile(name, "modelhub.json"))

\* C1: create_model_repos returns only after every submitted task has
\* finished: in no state has the run returned while a task is still queued
\* or executing.
C1_ReturnAfterAllTasks ==
    pc \in {"returned", "exited"} => AllTasksDone

\* C2: a step of task p that raises leaves the main thread where it is,
\* leaves its return value, the pool and its threads as they are, leaves
\* every other task's record and place in the queue unchanged; and when the
\* process has exited every task is finished and every task that did not
\* raise has its model.json and modelhub.json.
Raises(p) ==
    /\ p \in DOMAIN tasks'
    /\ tasks[p].pc \notin TerminalPcs
    /\ tasks'[p].pc = "failed"
OthersQueued(q, p) == SelectSeq(q, LAMBDA x : x # p)
ExitOutputs ==
    pc = "exited" =>
        \A q \in DOMAIN tasks :
            /\ tasks[q].pc \in TerminalPcs
            /\ tasks[q].pc = "ok" => HasOutputs(tasks[q].meta.name)
C2_FailureIsolation ==
    [][ /\ \A p \in DOMAIN tasks :
              Raises(p) =>
                  /\ pc' = pc
                  /\ retval' = retval
                  /\ pool' = pool
                  /\ numThreads' = numThreads
                  /\ OthersQueued(queue', p) = OthersQueued(queue, p)
                  /\ \A q \in DOMAIN tasks \ {p} : tasks'[q] = tasks[q]
        /\ ExitOutputs' ]_vars
\* one package has failed and another, with another name, has its outputs
C2_Witness ==
    \E p, q \in DOMAIN tasks :
        /\ tasks[p].pc = "failed"
        /\ tasks[q].pc = "ok"
        /\ tasks[p].meta.name # tasks[q].meta.name
        /\ HasOutputs(tasks[q].meta.name)
        /\ pc = "exited"

\* C3: at most max_workers clone_repo invocations execute at the same time
\* (so at most max_workers are in their git-clone or download step).
C3_ConcurrencyBound ==
    /\ Cardinality(Running) <= max_workers
    /\ numThreads <= max_workers
\* all workers are in a blocking step while a further task waits
C3_Witness ==
    /\ Cardinality({t \in DOMAIN tasks : tasks[t].pc \in BlockingPcs}) = max_workers
    /\ queue # <<>>
    /\ Len(models) > max_workers

\* C4: when the run completes it exposes a tally: the number of failed
\* packages is the number of tasks that raised, the number of succeeded
\* packages the number that completed all steps.
C4_TallyExposed ==
    pc = "exited" =>
        /\ retval.kind = "tally"
        /\ retval.failed = Cardinality({t \in DOMAIN tasks : tasks[t].pc = "failed"})
        /\ retval.succeeded = Cardinality({t \in DOMAIN tasks : tasks[t].pc = "ok"})

\* C5: when the index cannot be obtained the run aborts before the pool is
\* created and nothing is submitted; a pool exists only with the index that
\* was obtained; with the cached index switched on there is no network
\* retrieval and the snapshot is not rewritten.
C5_FatalIndexDispatchesNothing ==
    /\ pc = "aborted" =>
          /\ pool = "none"
          /\ tasks = <<>>
          /\ queue = <<>>
          /\ gitCalls = {}
          /\ wgetCalls = {}
    /\ (pool = "created" \/ tasks # <<>>) =>
          IF env.useLocal
          THEN /\ IsFile(fs, SnapshotPath)
               /\ fs[SnapshotPath].parsable
               /\ models = fs[SnapshotPath].doc
          ELSE /\ remoteIndex.parsable
               /\ models = remoteIndex.doc
    /\ env.useLocal =>
          /\ netCalls = 0
          /\ snapWrites = 0
          /\ IsFile(fs, SnapshotPath) = prev.snapshot
\* the cached index was asked for and the snapshot is absent: aborted
C5_Witness ==
    /\ pc = "aborted"
    /\ env.useLocal
    /\ ~IsFile(fs, SnapshotPath)
    /\ retval = RaisedValue("FileNotFoundError")

\* C6: wget is never run for an entry whose src_url starts with neither
\* http:// nor https://.
HttpScheme == <<"h", "t", "t", "p", ":", "/", "/">>
HttpsScheme == <<"h", "t", "t", "p", "s", ":", "/", "/">>
C6_NonUrlEntriesSkipped ==
    \A c \in wgetCalls :
        StartsWith(c.src, HttpScheme) \/ StartsWith(c.src, HttpsScheme)

\* C7: for every dest_file_path that begins with a separator the download
\* destination is a relative path below <repositories_root>/<name>.
C7_DestBelowRepoRoot ==
    \A c \in wgetCalls :
        StartsWith(c.given, <<"/">>) =>
            /\ ~c.dest.abs
            /\ IsPrefix(repo_root(c.name).parts, c.dest.parts)

\* C8: a descriptor without a github field, or with an empty github URL,
\* fails without git clone being run for it.
C8_NoCloneWithoutUrl ==
    /\ \A c \in gitCalls : c.url # ""
    /\ \A t \in DOMAIN tasks :
          (~tasks[t].meta.has_github \/ tasks[t].meta.github = "") =>
              tasks[t].pc # "ok"

\* C9: after two tasks for the same name have both finished, model.json and
\* modelhub.json of that name are both what the task that finished writing
\* last wrote.
C9_NoMixedOutputs ==
    pc = "exited" =>
        \A a, b \in DOMAIN tasks :
            (a # b /\ tasks[a].meta.name = tasks[b].meta.name
                   /\ tasks[a].pc = "ok" /\ tasks[b].pc = "ok") =>
                LET name == tasks[a].meta.name
                    last == fs[MetaFile(name, "modelhub.json")].by
                IN  /\ fs[MetaFile(name, "model.json")] = WrittenBy(ModelText(tasks[last]), last)
                    /\ fs[MetaFile(name, "modelhub.json")] =
                           WrittenBy(ModelhubText(tasks[last]), last)

\* C10 as stated: in a rerun with the same switches, a clone directory or a
\* metadata directory left by the earlier run is not an error for a task of
\* that name.
C10_RerunSameSwitches ==
    (prev.ran /\ prev.sameEnv) =>
        \A t \in DOMAIN tasks :
            (tasks[t].meta.name \in prev.cloned /\ tasks[t].pc = "failed") =>
                /\ tasks[t].err.exc # "CalledProcessError:exists"
                /\ tasks[t].err.step # "mkdir"

\* C10 as amended: for a name whose clone directory an earlier run left,
\* a rerun with cloning switched off never fails on the existing clone or
\* metadata directory, and a task that completes has its outputs on disk,
\* written by a task of that name in this run; a rerun with cloning on
\* fails the task at git clone and the task goes no further.
SameNameWriters(t) ==
    {u \in DOMAIN tasks : tasks[u].meta.name = tasks[t].meta.name
                          /\ tasks[u].pc \in {"write_mh", "ok"}}
C10_RerunRecovery ==
    prev.ran =>
        \A t \in DOMAIN tasks :
            tasks[t].meta.name \in prev.cloned =>
                IF env.skipClone
                THEN /\ tasks[t].pc = "failed" =>
                          /\ tasks[t].err.step \notin {"clone", "mkdir"}
                          /\ tasks[t].err.exc # "CalledProcessError:exists"
                     /\ tasks[t].pc = "ok" =>
                          /\ HasOutputs(tasks[t].meta.name)
                          /\ \E u \in SameNameWriters(t) :
                                fs[MetaFile(tasks[t].meta.name, "model.json")] =
                                    WrittenBy(ModelText(tasks[u]), u)
                          /\ \E u \in SameNameWriters(t) :
                                /\ tasks[u].pc = "ok"
                                /\ fs[MetaFile(tasks[t].meta.name, "modelhub.json")] =
                                       WrittenBy(ModelhubText(tasks[u]), u)
                ELSE /\ tasks[t].pc \in {"queued", "clone", "failed"}
                     /\ tasks[t].pc = "failed" =>
                            tasks[t].err = [step |-> "clone",
                                            exc |-> "CalledProcessError:exists"]
\* a rerun with cloning off completed a package an earlier run had cloned
C10_Witness ==
    /\ prev.ran
    /\ env.skipClone
    /\ \E t \in DOMAIN tasks :
          /\ tasks[t].meta.name \in prev.cloned
          /\ tasks[t].pc = "ok"
          /\ fs[MetaFile(tasks[t].meta.name, "modelhub.json")].by = t

\* C11: a run that completes a package an earlier run had written outputs
\* for, from the same descriptor and the same cloned files, leaves
\* model.json and modelhub.json with the content the earlier run left.
OnlyDescriptorOfItsName(t) ==
    \A i \in DOMAIN models : models[i].name = tasks[t].meta.name => i = t
SameAsBefore(p) ==
    p \in DOMAIN prev.outputs => Content(fs[p]) = prev.outputs[p]
C11_IdempotentOutputs ==
    prev.ran =>
        \A t \in DOMAIN tasks :
            (tasks[t].pc = "ok" /\ OnlyDescriptorOfItsName(t)) =>
                /\ SameAsBefore(MetaFile(tasks[t].meta.name, "model.json"))
                /\ SameAsBefore(MetaFile(tasks[t].meta.name, "modelhub.json"))
\* a second run completed a package whose two outputs the first run left
C11_Witness ==
    /\ prev.ran
    /\ \E t \in DOMAIN tasks :
          /\ tasks[t].pc = "ok"
          /\ OnlyDescriptorOfItsName(t)
          /\ MetaFile(tasks[t].meta.name, "model.json") \in DOMAIN prev.outputs
          /\ MetaFile(tasks[t].meta.name, "modelhub.json") \in DOMAIN prev.outputs
          /\ fs[MetaFile(tasks[t].meta.name, "modelhub.json")].by = t

\* C12: with MHTORRENT_SKIP_DOWNLOAD set wget is never run, for any package
\* and any entry, and no task fails in the asset loop.
C12_SkipDownloadFetchesNothing ==
    env.skipDownload =>
        /\ wgetCalls = {}
        /\ \A t \in DOMAIN tasks :
              /\ tasks[t].err.step # "assets"
              /\ tasks[t].err.exc # "CalledProcessError:wget"
\* downloads are off and a package whose init.json names a URL to download
\* has gone through its config load and its two writes
HasUrlEntry(name) ==
    LET p == ReposRoot \o <<name, "init", "init.json">>
    IN  /\ IsFile(fs, p)
        /\ fs[p].type = "init"
        /\ fs[p].parsable
        /\ \E i \in DOMAIN fs[p].doc.external_contrib_files :
               ~SkipsEntry(fs[p].doc.external_contrib_files[i].src_url)
C12_Witness ==
    /\ env.skipDownload
    /\ \E t \in DOMAIN tasks :
          /\ tasks[t].pc = "ok"
          /\ HasUrlEntry(tasks[t].meta.name)
          /\ fs[MetaFile(tasks[t].meta.name, "modelhub.json")].by = t

\* C13: the configuration a task holds is the document of its package's
\* config.json as loaded, no later step changes it, and the step that
\* completes the task leaves model.json and modelhub.json in the package's
\* metadata directory, modelhub.json holding exactly that document.
C13_SuccessPostcondition ==
    [][ \A t \in DOMAIN tasks :
          t \in DOMAIN tasks' =>
            LET name == tasks[t].meta.name
            IN  /\ (tasks[t].pc = "load_config" /\ tasks'[t].pc = "mkdir") =>
                      /\ CanRead(fs, cwd, config_file(name))
                      /\ Resolve(fs, cwd, config_file(name)).path =
                             ReposRoot \o <<name, "contrib_src", "model", "config.json">>
                      /\ tasks'[t].config = ReadNode(fs, cwd, config_file(name)).doc
                /\ (tasks[t].pc \in {"mkdir", "write_model", "write_mh"}) =>
                      tasks'[t].config = tasks[t].config
                /\ (tasks[t].pc = "write_mh" /\ tasks'[t].pc = "ok") =>
                      /\ IsFile(fs', MetaFile(name, "model.json"))
                      /\ fs'[MetaFile(name, "model.json")].type = "model"
                      /\ IsFile(fs', MetaFile(name, "modelhub.json"))
                      /\ fs'[MetaFile(name, "modelhub.json")].type = "config"
                      /\ fs'[MetaFile(name, "modelhub.json")].parsable
                      /\ fs'[MetaFile(name, "modelhub.json")].doc = tasks[t].config ]_vars
\* a task has completed; its modelhub.json is a fresh serialization of the
\* document its config.json holds
C13_Witness ==
    \E t \in DOMAIN tasks :
        LET name == tasks[t].meta.name
            conf == ReposRoot \o <<name, "contrib_src", "model", "config.json">>
        IN  /\ tasks[t].pc = "ok"
            /\ HasOutputs(name)
            /\ fs[MetaFile(name, "modelhub.json")].by = t
            /\ fs[MetaFile(name, "modelhub.json")].fmt = "dumps"
            /\ IsFile(fs, conf)
            /\ fs[conf].fmt = "orig"
            /\ fs[conf].parsable
            /\ fs[MetaFile(name, "modelhub.json")].doc = fs[conf].doc

\* the steps of clone_repo in the order of the source: where a task at a
\* step may be next, and the failure the step may end with
SuccessorPcs(p) ==
    CASE p = "queued" -> {IF env.skipClone THEN "load_init" ELSE "clone"}
      [] p = "clone" -> {"load_init"}
      [] p = "load_init" -> {"assets", "load_config"}
      [] p = "assets" -> {"assets", "load_config"}
      [] p = "load_config" -> {"mkdir"}
      [] p = "mkdir" -> {"write_model"}
      [] p = "write_model" -> {"write_mh"}
      [] p = "write_mh" -> {"ok"}
      [] OTHER -> {}
FailureSteps(p) ==
    CASE p = "queued" -> {"lookup"}
      [] p = "write_model" -> {"normalize", "write_model"}
      [] OTHER -> {p}

\* C14: a task moves through clone (unless skipped), init.json load, asset
\* resolution, config.json load, metadata directory creation, normalization
\* and the two writes in this order, one step at a time; a step that fails
\* ends the task for good. Git runs only at the clone step, wget only at the
\* asset step, model.json and modelhub.json are written only at their write
\* steps; a download that fails ends its task, so that no later asset is
\* fetched and neither output is written by it.
C14_StepOrder ==
    [][ /\ \A t \in DOMAIN tasks \cap DOMAIN tasks' :
              /\ tasks[t].pc \in TerminalPcs => tasks'[t] = tasks[t]
              /\ tasks'[t] # tasks[t] =>
                    /\ tasks'[t].pc \in SuccessorPcs(tasks[t].pc) \cup {"failed"}
                    /\ tasks'[t].pc = "failed" =>
                          tasks'[t].err.step \in FailureSteps(tasks[t].pc)
                    /\ tasks'[t].pc # "failed" => tasks'[t].err = NoError
                    /\ (tasks[t].pc = "assets" /\ tasks'[t].pc = "assets") =>
                          tasks'[t].k = tasks[t].k + 1
        /\ \A c \in gitCalls' \ gitCalls :
              c.task \in DOMAIN tasks /\ tasks[c.task].pc = "clone"
        /\ \A c \in wgetCalls' \ wgetCalls :
              /\ c.task \in DOMAIN tasks
              /\ tasks[c.task].pc = "assets"
              /\ c.src = tasks[c.task].data.external_contrib_files[tasks[c.task].k].src_url
              /\ LET r == Resolve(fs, cwd, c.dest)
                 IN  (~CanWrite(fs, cwd, c.dest) \/ fs'[r.path].type = "empty") =>
                         tasks'[c.task].pc = "failed"
        /\ \A q \in DOMAIN fs' :
              (IsPrefix(JsonRoot, q) /\ Len(q) = 4 /\ (q \notin DOMAIN fs \/ fs'[q] # fs[q])) =>
                  \E t \in DOMAIN tasks :
                      /\ tasks[t].meta.name = q[3]
                      /\ fs'[q].by = t
                      /\ tasks[t].pc = IF q[4] = "model.json" THEN "write_model" ELSE "write_mh"
      ]_vars
\* in a first run a download of a task has failed: the task has ended with
\* that failure and its package has neither output
C14_Witness ==
    /\ run = 1
    /\ \E t \in DOMAIN tasks :
          /\ tasks[t].pc = "failed"
          /\ tasks[t].err = [step |-> "assets", exc |-> "CalledProcessError:wget"]
          /\ \E c \in wgetCalls : c.task = t
          /\ ~Exists(fs, MetaFile(tasks[t].meta.name, "model.json"))
          /\ ~Exists(fs, MetaFile(tasks[t].meta.name, "modelhub.json"))

\* C15: with threads scheduled fairly and git and wget returning, a run that
\* has an index comes to the point where every descriptor of the index has
\* been submitted and taken by a worker and its task has ended, with success
\* or failure, also when more failing packages are ahead of it than the
\* pool has workers.
EveryPackageFinished ==
    /\ Len(tasks) = Len(models)
    /\ queue = <<>>
    /\ \A t \in DOMAIN tasks : tasks[t].meta = models[t] /\ tasks[t].pc \in TerminalPcs
C15_EveryPackageFinished == (pc = "submit") ~> EveryPackageFinished
\* the last task of an index longer than the pool is wide has ended after
\* every task ahead of it failed, on threads that had run failing tasks
C15_Witness ==
    /\ Len(models) > max_workers
    /\ EveryPackageFinished
    /\ numThreads = max_workers
    /\ \A t \in 1..(Len(tasks) - 1) : tasks[t].pc = "failed"
    /\ tasks[Len(tasks)].pc = "ok"

\* a step has created the node at q or changed it
Changed(q) ==
    \/ q \notin DOMAIN fs
    \/ fs'[q].type # fs[q].type
    \/ fs'[q].by # fs[q].by
    \/ fs'[q] # fs[q]

\* C16: whatever init.json holds, a step of a task for package `name`
\* creates or changes nodes only under <repositories_root>/<name> and
\* <metadata_root>/<name>.
C16_WriteConfinement ==
    [][ \A t \in DOMAIN tasks \cap DOMAIN tasks' :
          tasks'[t] # tasks[t] =>
              \A q \in DOMAIN fs' :
                  Changed(q) =>
                      \/ IsPrefix(Append(ReposRoot, tasks[t].meta.name), q)
                      \/ IsPrefix(Append(JsonRoot, tasks[t].meta.name), q) ]_vars

\* C17: tasks exist only after the working directory was set to the
\* repositories root, and it stays there when the orchestrator calls chdir
\* again after the last submission, with tasks still queued or running:
\* every git clone a worker runs has the repositories root as working
\* directory, and a clone that succeeds leaves the repository's tree at
\* <repositories_root>/<name>, where the paths of init.json and config.json
\* then lead.
C17_ClonesInReposRoot ==
    [][ /\ tasks' # <<>> => cwd' = ReposRoot
        /\ \A c \in gitCalls' \ gitCalls :
              /\ c.cwd = ReposRoot
              /\ tasks'[c.task].pc = "load_init" =>
                    LET at == Append(ReposRoot, c.name)
                        i == Resolve(fs', cwd', init_file(c.name))
                        g == Resolve(fs', cwd', config_file(c.name))
                    IN  /\ \A r \in DOMAIN GitHost(c.url) :
                              /\ (at \o r) \in DOMAIN fs'
                              /\ fs'[at \o r] = GitHost(c.url)[r]
                        /\ i.ok /\ i.path = at \o <<"init", "init.json">>
                        /\ g.ok /\ g.path = at \o <<"contrib_src", "model", "config.json">>
      ]_vars
\* the orchestrator has returned from its second chdir while one task has
\* its clone and another is about to run git clone
C17_Witness ==
    /\ pc = "returned"
    /\ cwd = ReposRoot
    /\ \E t \in DOMAIN tasks : tasks[t].pc = "clone"
    /\ \E t \in DOMAIN tasks :
          /\ tasks[t].pc = "load_init"
          /\ \E c \in gitCalls : c.task = t
          /\ IsFile(fs, ReposRoot \o <<tasks[t].meta.name, "init", "init.json">>)

\* C18: a live retrieval that got a response leaves the response body at
\* the snapshot path, also when the body does not parse; and a run with
\* use-cached-index that follows a live run which got a parsable index
\* reads the same sequence of descriptors and submits the same tasks.
C18_IndexCacheRoundTrip ==
    /\ (~env.useLocal /\ pc \notin {"main", "index"}
                      /\ retval # RaisedValue("RequestException")) =>
          /\ snapWrites = 1
          /\ IsFile(fs, SnapshotPath)
          /\ fs[SnapshotPath] = remoteIndex
    /\ (~env.useLocal /\ pc = "aborted") =>
          /\ tasks = <<>>
          /\ retval \in {RaisedValue("RequestException"), RaisedValue("JSONDecodeError")}
    /\ (prev.live /\ env.useLocal /\ pc \notin {"main", "index"}) =>
          /\ pc # "aborted"
          /\ models = prev.models
          /\ \A t \in DOMAIN tasks : tasks[t].meta = prev.models[t]
          /\ pc \in {"chdir_back", "returned", "exited"} => Len(tasks) = Len(prev.models)

====
